---- MODULE Spec2Model ----
(***************************************************************************)
(* Model of src/src/pages/Index.tsx: the Flipper Zero CO2 log reader.      *)
(*                                                                         *)
(* Text is modelled character by character: a JavaScript string is a       *)
(* sequence of one-character strings ("ESC" stands for the character       *)
(* \x1b).  String methods (includes, indexOf, split, trim, replace,        *)
(* parseInt) are operators that compute what the methods compute.          *)
(***************************************************************************)
EXTENDS Integers, Sequences, FiniteSets, TLC

VARIABLES
  isConnected,          \* useState isConnected                (line 56)
  flipperPort,          \* useState flipperPort: "null"/"port" (line 60)
  readerRef,            \* readerRef.current: "null"/"reader"  (line 61)
  writerRef,            \* writerRef.current: "null"/"writer"  (line 62)
  sessions,             \* useState sessions                   (line 58)
  currentSessionIndex,  \* useState currentSessionIndex        (line 59)
  pc,                   \* position of the readFlipperFile invocation
  buffer,               \* let buffer                          (line 178)
  csvContent,           \* let csvContent                      (line 179)
  foundHeader,          \* let foundHeader                     (line 180)
  commandComplete,      \* let commandComplete                 (line 181)
  commandEchoed,        \* let commandEchoed                   (line 182)
  timeout,              \* the setTimeout handle of line 185
  cleanLines,           \* const cleanLines                    (line 283)
  toasts,               \* notifications emitted by the invocation, in order
  received,             \* the chunks read() has delivered, in order
  errBeforeHeader,      \* history: an error marker arrived while foundHeader was false
  lateChunk,            \* history: a chunk was processed after the deadline fired
  mounted,              \* the component is mounted
  dpc,                  \* position of the disconnect invocation
  dresult,              \* how the last disconnect invocation ended
  dcalls,               \* history: the number of disconnect calls
  released,             \* the release operations performed on the open channel
  readNo,               \* history: the number of earlier readFlipperFile invocations
  sessionsRead,         \* history: the invocation that installed the session list
  pendingTimers         \* timers of earlier invocations that are still armed

vars == <<isConnected, flipperPort, readerRef, writerRef, sessions,
          currentSessionIndex, pc, buffer, csvContent, foundHeader,
          commandComplete, commandEchoed, timeout, cleanLines, toasts,
          received, errBeforeHeader, lateChunk, mounted, dpc, dresult,
          dcalls, released, readNo, sessionsRead, pendingTimers>>

(***************************************************************************)
(* String literals of the source.                                          *)
(***************************************************************************)
COMMAND == <<"s", "t", "o", "r", "a", "g", "e", " ", "r", "e", "a", "d", " ", "/", "e", "x", "t", "/", "a", "p", "p", "s", "_", "d", "a", "t", "a", "/", "c", "o", "2", "_", "l", "o", "g", "g", "e", "r", "/", "c", "o", "2", "_", "l", "o", "g", ".", "c", "s", "v", "\n">>
ECHO_MARK == <<"c", "o", "2", "_", "l", "o", "g", ".", "c", "s", "v">>
HEADER == <<"T", "i", "m", "e", "s", "t", "a", "m", "p", ",", "C", "O", "2", "_", "P", "P", "M">>
STORAGE == <<"s", "t", "o", "r", "a", "g", "e">>
ERR_FILE_NOT_FOUND == <<"F", "i", "l", "e", " ", "n", "o", "t", " ", "f", "o", "u", "n", "d">>
ERR_ERROR == <<"E", "r", "r", "o", "r">>
ERR_INVALID == <<"I", "n", "v", "a", "l", "i", "d">>
ERR_NO_SUCH_FILE == <<"N", "o", " ", "s", "u", "c", "h", " ", "f", "i", "l", "e">>
ERR_CANNOT_OPEN == <<"C", "a", "n", "n", "o", "t", " ", "o", "p", "e", "n">>
ERR_PERMISSION == <<"P", "e", "r", "m", "i", "s", "s", "i", "o", "n", " ", "d", "e", "n", "i", "e", "d">>
PROMPT2 == <<">", ":">>
PROMPT1 == <<">">>

GapThreshold == 300
HeaderCeiling == 1000
BufferCeiling == 100000
BufferKeep == 50000

(***************************************************************************)
(* JavaScript string methods.                                              *)
(***************************************************************************)
Whitespace == {" ", "\t", "\n", "\r"}
Digits == {"0", "1", "2", "3", "4", "5", "6", "7", "8", "9"}

DigitVal(c) ==
  CASE c = "0" -> 0 [] c = "1" -> 1 [] c = "2" -> 2 [] c = "3" -> 3
    [] c = "4" -> 4 [] c = "5" -> 5 [] c = "6" -> 6 [] c = "7" -> 7
    [] c = "8" -> 8 [] c = "9" -> 9

\* s.includes(p)
Includes(s, p) ==
  \/ p = <<>>
  \/ \E i \in 1..(Len(s) - Len(p) + 1) :
       s[i] = p[1] /\ SubSeq(s, i, i + Len(p) - 1) = p

\* s.indexOf(p): zero-based index of the first occurrence, -1 when absent
IndexOf(s, p) ==
  IF Includes(s, p)
  THEN (CHOOSE i \in 1..(Len(s) - Len(p) + 1) :
          /\ SubSeq(s, i, i + Len(p) - 1) = p
          /\ \A j \in 1..(i - 1) : SubSeq(s, j, j + Len(p) - 1) # p) - 1
  ELSE -1

\* s.substring(k), k zero-based
Substring(s, k) == SubSeq(s, k + 1, Len(s))

\* s.slice(-n)
SliceLast(s, n) == IF Len(s) <= n THEN s ELSE SubSeq(s, Len(s) - n + 1, Len(s))

RECURSIVE Split(_, _)
\* s.split(sep) for a one-character separator
Split(s, sep) ==
  IF \E i \in 1..Len(s) : s[i] = sep
  THEN LET k == CHOOSE i \in 1..Len(s) :
                  s[i] = sep /\ \A j \in 1..(i - 1) : s[j] # sep
       IN <<SubSeq(s, 1, k - 1)>> \o Split(SubSeq(s, k + 1, Len(s)), sep)
  ELSE <<s>>

RECURSIVE Join(_, _)
\* lines.join(sep)
Join(ls, sep) ==
  IF ls = <<>> THEN <<>>
  ELSE IF Len(ls) = 1 THEN ls[1]
  ELSE ls[1] \o <<sep>> \o Join(Tail(ls), sep)

RECURSIVE TrimStart(_)
TrimStart(s) ==
  IF s # <<>> /\ Head(s) \in Whitespace THEN TrimStart(Tail(s)) ELSE s

RECURSIVE TrimEnd(_)
TrimEnd(s) ==
  IF s # <<>> /\ s[Len(s)] \in Whitespace THEN TrimEnd(SubSeq(s, 1, Len(s) - 1)) ELSE s

\* s.trim()
Trim(s) == TrimEnd(TrimStart(s))

RECURSIVE FilterSeq(_, _)
FilterSeq(ls, i) ==
  IF i > Len(ls) THEN <<>>
  ELSE IF Trim(ls[i]) # <<>> THEN <<ls[i]>> \o FilterSeq(ls, i + 1)
  ELSE FilterSeq(ls, i + 1)

\* lines.filter(line => line.trim())
FilterNonBlank(ls) == FilterSeq(ls, 1)

RECURSIVE AnsiParamsEnd(_, _)
\* the index after the run of [0-9;] characters that starts at i
AnsiParamsEnd(s, i) ==
  IF i <= Len(s) /\ s[i] \in (Digits \cup {";"}) THEN AnsiParamsEnd(s, i + 1) ELSE i

\* the index of the final "m" of the escape sequence that starts at i, or 0
AnsiMatchEnd(s, i) ==
  IF s[i] = "ESC" /\ i + 1 <= Len(s) /\ s[i + 1] = "["
  THEN LET e == AnsiParamsEnd(s, i + 2)
       IN IF e <= Len(s) /\ s[e] = "m" THEN e ELSE 0
  ELSE 0

RECURSIVE StripAnsi(_)
\* s.replace(/\x1b\[[0-9;]*m/g, '')
StripAnsi(s) ==
  IF \E i \in 1..Len(s) : AnsiMatchEnd(s, i) # 0
  THEN LET k == CHOOSE i \in 1..Len(s) :
                  /\ AnsiMatchEnd(s, i) # 0
                  /\ \A j \in 1..(i - 1) : AnsiMatchEnd(s, j) = 0
       IN SubSeq(s, 1, k - 1)
            \o StripAnsi(SubSeq(s, AnsiMatchEnd(s, k) + 1, Len(s)))
  ELSE s

\* s.replace(/\r/g, '')
StripCR(s) == SelectSeq(s, LAMBDA c : c # "\r")

(***************************************************************************)
(* JavaScript numbers: a number is NaN or an integer.                      *)
(***************************************************************************)
NaN == [nan |-> TRUE, val |-> 0]
Num(n) == [nan |-> FALSE, val |-> n]

RECURSIVE DigitPrefixLen(_)
DigitPrefixLen(s) ==
  IF s # <<>> /\ Head(s) \in Digits THEN 1 + DigitPrefixLen(Tail(s)) ELSE 0

RECURSIVE DecVal(_)
DecVal(ds) ==
  IF ds = <<>> THEN 0
  ELSE 10 * DecVal(SubSeq(ds, 1, Len(ds) - 1)) + DigitVal(ds[Len(ds)])

\* parseInt(s): leading whitespace, an optional sign, then the longest run
\* of decimal digits; NaN when there is no digit.  (No text of the model
\* carries a 0x prefix, so the hexadecimal case is not represented.)
ParseInt(s) ==
  LET t == TrimStart(s)
      neg == t # <<>> /\ Head(t) = "-"
      u == IF t # <<>> /\ Head(t) \in {"+", "-"} THEN Tail(t) ELSE t
      n == DigitPrefixLen(u)
  IN IF n = 0 THEN NaN
     ELSE Num((IF neg THEN -1 ELSE 1) * DecVal(SubSeq(u, 1, n)))

\* isNaN(x)
IsNaN(x) == x.nan

\* a - b
NumSub(a, b) == IF a.nan \/ b.nan THEN NaN ELSE Num(a.val - b.val)

\* a * k
NumMul(a, k) == IF a.nan THEN NaN ELSE Num(a.val * k)

\* a > k
NumGt(a, k) == ~a.nan /\ a.val > k

(***************************************************************************)
(* Dates.  new Date(ms) keeps the millisecond count; toLocaleString        *)
(* renders the calendar day and the time of day to the second,             *)
(* toLocaleTimeString the time of day only; both render "Invalid Date"     *)
(* for NaN.                                                                *)
(***************************************************************************)
ToLocaleString(d) ==
  IF d.nan THEN [invalid |-> TRUE, day |-> 0, sec |-> 0]
  ELSE [invalid |-> FALSE, day |-> d.val \div 86400000,
        sec |-> (d.val \div 1000) % 86400]

ToLocaleTimeString(d) ==
  IF d.nan THEN [invalid |-> TRUE, sec |-> 0]
  ELSE [invalid |-> FALSE, sec |-> (d.val \div 1000) % 86400]

(***************************************************************************)
(* parseCSVData (lines 97-162).                                            *)
(***************************************************************************)
RECURSIVE DataPointsFrom(_, _)
\* the row loop of lines 104-114, from lines[i] on (i is one-based here)
DataPointsFrom(lines, i) ==
  IF i > Len(lines) THEN <<>>
  ELSE LET parts == Split(lines[i], ",")
           timestamp == parts[1]
           hasBoth == Len(parts) >= 2 /\ timestamp # <<>> /\ parts[2] # <<>>
       IN IF hasBoth
          THEN <<[timestamp |-> timestamp,
                  co2_ppm |-> ParseInt(parts[2]),
                  formattedTime |->
                    ToLocaleTimeString(NumMul(ParseInt(timestamp), 1000))]>>
               \o DataPointsFrom(lines, i + 1)
          ELSE DataPointsFrom(lines, i + 1)

\* the session object pushed at lines 134-139 and 153-158
MakeSession(id, group) ==
  [id |-> id,
   startTime |-> ToLocaleString(NumMul(ParseInt(group[1].timestamp), 1000)),
   endTime |-> ToLocaleString(NumMul(ParseInt(group[Len(group)].timestamp), 1000)),
   data |-> group]

\* mutant of StartsNewSession: the comparison is >= instead of >
StartsNewSession_ge(point, lastPoint) ==
  LET d == NumSub(ParseInt(point.timestamp), ParseInt(lastPoint.timestamp))
  IN ~d.nan /\ d.val >= GapThreshold

\* mutant of StartsNewSession: the threshold is doubled
StartsNewSession_loose(point, lastPoint) ==
  NumGt(NumSub(ParseInt(point.timestamp), ParseInt(lastPoint.timestamp)),
        2 * GapThreshold)

\* mutant of StartsNewSession: any forward step starts a session
StartsNewSession_any(point, lastPoint) ==
  NumGt(NumSub(ParseInt(point.timestamp), ParseInt(lastPoint.timestamp)), 0)

\* timeDiff > 300 (lines 127-129)
StartsNewSession(point, lastPoint) ==
  NumGt(NumSub(ParseInt(point.timestamp), ParseInt(lastPoint.timestamp)),
        GapThreshold)

\* mutant of Flush: the last group is forgotten
Flush_drop(acc, currentSession) == acc

\* lines 149-159: the last group becomes the last session
Flush(acc, currentSession) ==
  IF Len(currentSession) > 0
  THEN Append(acc, MakeSession(Len(acc), currentSession))
  ELSE acc

RECURSIVE GroupFrom(_, _, _, _)
\* the grouping loop of lines 120-146 followed by the flush of lines 149-159
GroupFrom(dataPoints, i, acc, currentSession) ==
  IF i > Len(dataPoints)
  THEN Flush(acc, currentSession)
  ELSE LET point == dataPoints[i]
       IN IF Len(currentSession) = 0
          THEN GroupFrom(dataPoints, i + 1, acc, <<point>>)
          ELSE IF StartsNewSession(point, currentSession[Len(currentSession)])
          THEN GroupFrom(dataPoints, i + 1,
                         Append(acc, MakeSession(Len(acc), currentSession)),
                         <<point>>)
          ELSE GroupFrom(dataPoints, i + 1, acc, Append(currentSession, point))

parseCSVData(csv) ==
  LET lines == FilterNonBlank(Split(csv, "\n"))
  IN IF Len(lines) <= 1 THEN <<>>
     ELSE GroupFrom(DataPointsFrom(lines, 2), 1, <<>>, <<>>)

(***************************************************************************)
(* The clean-line loop of readFlipperFile (lines 282-314).                 *)
(***************************************************************************)
\* the test of lines 304-306: the line is pushed to cleanLines
IsDataLine(trimmedLine) ==
  /\ Includes(trimmedLine, <<",">>)
  /\ ~Includes(trimmedLine, PROMPT1)
  /\ ~Includes(trimmedLine, STORAGE)
  /\ LET parts == Split(trimmedLine, ",")
     IN /\ Len(parts) = 2
        /\ ~IsNaN(ParseInt(parts[1]))
        /\ ~IsNaN(ParseInt(parts[2]))

\* mutant of IsStopLine: the loop breaks at every line that is not pushed
IsStopLine_any(trimmedLine) == TRUE

\* mutant of IsStopLine: the loop never breaks
IsStopLine_never(trimmedLine) == FALSE

\* the tests of lines 304 and 309: the loop breaks at this line
IsStopLine(trimmedLine) ==
  /\ ~(/\ Includes(trimmedLine, <<",">>)
       /\ ~Includes(trimmedLine, PROMPT1)
       /\ ~Includes(trimmedLine, STORAGE))
  /\ (Includes(trimmedLine, PROMPT1) \/ trimmedLine = <<>>)

RECURSIVE CleanFrom(_, _, _, _)
CleanFrom(lines, i, headerFound, acc) ==
  IF i > Len(lines) THEN acc
  ELSE LET trimmedLine == Trim(lines[i])
       IN IF ~headerFound /\ trimmedLine = <<>>
          THEN CleanFrom(lines, i + 1, headerFound, acc)
          ELSE IF trimmedLine = HEADER
          THEN CleanFrom(lines, i + 1, TRUE, Append(acc, trimmedLine))
          ELSE IF ~headerFound
          THEN CleanFrom(lines, i + 1, headerFound, acc)
          ELSE IF IsDataLine(trimmedLine)
          THEN CleanFrom(lines, i + 1, headerFound, Append(acc, trimmedLine))
          ELSE IF IsStopLine(trimmedLine)
          THEN acc
          ELSE CleanFrom(lines, i + 1, headerFound, acc)

\* cleanLines after the loop of lines 286-314
CleanLines(csv) == CleanFrom(Split(csv, "\n"), 1, FALSE, <<>>)

(***************************************************************************)
(* readFlipperFile (lines 165-340).                                        *)
(***************************************************************************)
Toast(kind, line, count, points) ==
  [kind |-> kind, line |-> line, count |-> count, points |-> points]

\* mutant of HasErrorMarker: only the marker of line 218 is looked for
HasErrorMarker_errorOnly(s) == Includes(s, ERR_ERROR)

\* the condition of lines 217-222
HasErrorMarker(s) ==
  \/ Includes(s, ERR_FILE_NOT_FOUND)
  \/ Includes(s, ERR_ERROR)
  \/ Includes(s, ERR_INVALID)
  \/ Includes(s, ERR_NO_SUCH_FILE)
  \/ Includes(s, ERR_CANNOT_OPEN)
  \/ Includes(s, ERR_PERMISSION)

\* buffer.split('\n').find(line => ...) of lines 224-231
FirstErrorLine(s) ==
  LET ls == Split(s, "\n")
      k == CHOOSE i \in 1..Len(ls) :
             /\ HasErrorMarker(ls[i])
             /\ \A j \in 1..(i - 1) : ~HasErrorMarker(ls[j])
  IN ls[k]

\* the condition of line 253 on the buffer
HasPrompt(s) == Includes(s, PROMPT2) \/ Includes(s, PROMPT1)

\* mutant of PastHeaderCeiling: the guard is missing
PastHeaderCeiling_never(s) == FALSE

\* the condition of line 260
PastHeaderCeiling(s) == Len(s) > HeaderCeiling

\* mutant of CapBuffer: the eviction keeps nothing
CapBuffer_clear(s) == IF Len(s) > BufferCeiling THEN <<>> ELSE s

\* lines 269-272
CapBuffer(s) == IF Len(s) > BufferCeiling THEN SliceLast(s, BufferKeep) ELSE s

\* clearTimeout(timeout): a timer that has fired is not undone
ClearTimeout(t) == IF t = "armed" THEN "cleared" ELSE t

RECURSIVE TotalPoints(_)
\* parsedSessions.reduce((acc, session) => acc + session.data.length, 0)
TotalPoints(ss) ==
  IF ss = <<>> THEN 0 ELSE Len(Head(ss).data) + TotalPoints(Tail(ss))

\* lines 277-335: what the invocation does once the read loop has ended
PostLoop(csv, oldSessions, oldIndex) ==
  IF csv # <<>> /\ Includes(csv, HEADER)
  THEN LET cl == CleanLines(csv)
       IN IF Len(cl) > 1
          THEN LET parsedSessions == parseCSVData(Join(cl, "\n"))
               IN [cleanLines |-> cl,
                   sessions |-> parsedSessions,
                   index |-> 0,
                   replaced |-> TRUE,
                   toast |-> IF Len(parsedSessions) > 0
                             THEN Toast("Success", <<>>, Len(parsedSessions),
                                        TotalPoints(parsedSessions))
                             ELSE Toast("NoValidData", <<>>, 0, 0)]
          ELSE [cleanLines |-> cl, sessions |-> oldSessions, index |-> oldIndex,
                replaced |-> FALSE,
                toast |-> Toast("EmptyCsv", <<>>, 0, 0)]
  ELSE [cleanLines |-> <<>>, sessions |-> oldSessions, index |-> oldIndex,
        replaced |-> FALSE,
        toast |-> Toast("NoDataFound", <<>>, 0, 0)]

\* lines 237-250: the CSV accumulator after one chunk
NextCsv(buf, cleanText, csv, found) ==
  IF ~found /\ (Includes(buf, HEADER) \/ Includes(cleanText, HEADER))
  THEN LET cleanBuffer == StripAnsi(buf)
           headerIndex == IndexOf(cleanBuffer, HEADER)
       IN IF headerIndex # -1 THEN Substring(cleanBuffer, headerIndex) ELSE csv
  ELSE IF found THEN csv \o cleanText
  ELSE csv

\* lines 237-238: foundHeader after one chunk
NextFoundHeader(buf, cleanText, found) ==
  found \/ Includes(buf, HEADER) \/ Includes(cleanText, HEADER)

\* line 205: the chunk completes the command echo
EchoCompletes(buf, echoed) == ~echoed /\ Includes(buf, ECHO_MARK)

\* mutant of ChecksApply: the checks do not wait for the echo
ChecksApply_always(echoed) == TRUE

\* line 215: the checks for CSV data apply
ChecksApply(echoed) == echoed

(***************************************************************************)
(* The component: connectToFlipper (lines 343-381), reduced to its         *)
(* successful path, and the steps of one readFlipperFile invocation.       *)
(***************************************************************************)
MaxChunks == 4
FillerLen == 501

Filler == <<>> \o [i \in 1..FillerLen |-> "x"]
ErrorText == <<"S", "t", "o", "r", "a", "g", "e", " ", "e", "r", "r", "o", "r", ":", " ", "F", "i", "l", "e", " ", "n", "o", "t", " ", "f", "o", "u", "n", "d", "\r", "\n">>
HeaderText == <<"ESC", "[", "3", "2", "m", "T", "i", "m", "e", "s", "t", "a", "m", "p", ",", "C", "O", "2", "_", "P", "P", "M", "ESC", "[", "0", "m", "\r", "\n">>
RowsText == <<"0", ",", "4", "0", "0", "\r", "\n", "6", "1", "0", ",", "4", "2", "0", "\r", "\n">>
PromptText == <<"\r", "\n", ">", ":", " ">>

\* the chunks the device may deliver
Chunks ==
  { COMMAND, COMMAND \o ErrorText, ErrorText, HeaderText, RowsText,
    PromptText, Filler }

Init ==
  /\ isConnected = FALSE
  /\ flipperPort = "null"
  /\ readerRef = "null"
  /\ writerRef = "null"
  /\ sessions = <<>>
  /\ currentSessionIndex = 0
  /\ pc = "idle"
  /\ buffer = <<>>
  /\ csvContent = <<>>
  /\ foundHeader = FALSE
  /\ commandComplete = FALSE
  /\ commandEchoed = FALSE
  /\ timeout = "none"
  /\ cleanLines = <<>>
  /\ toasts = <<>>
  /\ received = <<>>
  /\ errBeforeHeader = FALSE
  /\ lateChunk = FALSE
  /\ mounted = TRUE
  /\ dpc = "idle"
  /\ dresult = "none"
  /\ dcalls = 0
  /\ released = {}
  /\ readNo = 0
  /\ sessionsRead = 0
  /\ pendingTimers = 0

component == <<isConnected, flipperPort, readerRef, writerRef, mounted, dpc,
               dresult, dcalls, released>>
display == <<sessions, currentSessionIndex, sessionsRead>>
locals == <<buffer, csvContent, foundHeader, commandComplete, commandEchoed,
            cleanLines>>
history == <<received, errBeforeHeader, lateChunk, readNo, pendingTimers>>

\* lines 362-368
Connect ==
  /\ mounted
  /\ ~isConnected
  /\ flipperPort' = "port"
  /\ readerRef' = "reader"
  /\ writerRef' = "writer"
  /\ isConnected' = TRUE
  /\ released' = {}
  /\ dresult' = "none"
  /\ UNCHANGED <<mounted, dpc, dcalls>>
  /\ UNCHANGED <<display, pc, locals, timeout, toasts, history>>

\* mutant of ReadGuard: the guard is missing
ReadGuard_none(writer, reader) == TRUE

\* line 166: the read goes on
ReadGuard(writer, reader) == writer # "null" /\ reader # "null"

\* a connect has set the timer of lines 371-373: the component is still
\* connected or its port has been closed since
ReadScheduled == isConnected \/ "port" \in released

\* the timer of lines 371-373 runs readFlipperFile, lines 165-174: the
\* guard fails and the call returns, or the command is handed to the
\* writer (one invocation is followed; callers serialise file reads)
StartRead ==
  /\ pc = "idle"
  /\ ReadScheduled
  /\ pc' = (IF ReadGuard(writerRef, readerRef) THEN "writing" ELSE "returned")
  /\ UNCHANGED <<component, display, locals, timeout, toasts, history>>

\* line 174 resolves; lines 178-188 declare the locals and arm the timer
WriteDone ==
  /\ pc = "writing"
  /\ pc' = "reading"
  /\ buffer' = <<>>
  /\ csvContent' = <<>>
  /\ foundHeader' = FALSE
  /\ commandComplete' = FALSE
  /\ commandEchoed' = FALSE
  /\ timeout' = "armed"
  /\ UNCHANGED <<component, display, cleanLines, toasts, history>>

\* line 174 rejects: the catch of lines 336-339
WriteFails ==
  /\ pc = "writing"
  /\ pc' = "done"
  /\ toasts' = Append(toasts, Toast("ReadFailed", <<>>, 0, 0))
  /\ UNCHANGED <<component, display, locals, timeout, history>>

\* the loop has ended (break or done): lines 275-335
Finish(csv, complete, echoed, found, buf) ==
  LET r == PostLoop(csv, sessions, currentSessionIndex)
  IN /\ pc' = "done"
     /\ timeout' = ClearTimeout(timeout)
     /\ buffer' = buf
     /\ csvContent' = csv
     /\ foundHeader' = found
     /\ commandComplete' = complete
     /\ commandEchoed' = echoed
     /\ cleanLines' = r.cleanLines
     /\ sessions' = r.sessions
     /\ currentSessionIndex' = r.index
     /\ sessionsRead' = (IF r.replaced THEN readNo ELSE sessionsRead)
     /\ toasts' = Append(toasts, r.toast)

\* a return from inside the loop (lines 232-233 and 263-264)
Abort(t, echoed, found, buf) ==
  /\ pc' = "done"
  /\ timeout' = ClearTimeout(timeout)
  /\ buffer' = buf
  /\ commandEchoed' = echoed
  /\ foundHeader' = found
  /\ toasts' = Append(toasts, t)
  /\ UNCHANGED <<display, csvContent, commandComplete, cleanLines>>

\* the next loop iteration is reached
Continue(csv, echoed, found, buf) ==
  /\ pc' = "reading"
  /\ buffer' = buf
  /\ csvContent' = csv
  /\ commandEchoed' = echoed
  /\ foundHeader' = found
  /\ UNCHANGED <<display, commandComplete, cleanLines, timeout, toasts>>

\* read() resolves with a chunk: one iteration of the loop, lines 191-272,
\* and everything that follows it up to the next await or the return
ReadChunk(text) ==
  /\ pc = "reading"
  /\ "reader" \notin released     \* a cancelled reader delivers no chunk
  /\ Len(received) < MaxChunks
  /\ received' = Append(received, text)
  /\ errBeforeHeader' = (errBeforeHeader \/ (~foundHeader /\ HasErrorMarker(text)))
  /\ lateChunk' = (lateChunk \/ timeout = "fired")
  /\ UNCHANGED <<component, readNo, pendingTimers>>
  /\ LET buf == buffer \o text
         cleanText == StripCR(StripAnsi(text))
     IN IF EchoCompletes(buf, commandEchoed)
        THEN Continue(csvContent, TRUE, foundHeader, <<>>)
        ELSE IF ~ChecksApply(commandEchoed)
        THEN Continue(csvContent, commandEchoed, foundHeader, CapBuffer(buf))
        ELSE IF HasErrorMarker(buf)
        THEN Abort(Toast("DeviceError", FirstErrorLine(buf), 0, 0),
                   commandEchoed, foundHeader, buf)
        ELSE LET found == NextFoundHeader(buf, cleanText, foundHeader)
                 csv == NextCsv(buf, cleanText, csvContent, foundHeader)
             IN IF found /\ HasPrompt(buf)
                THEN Finish(csv, TRUE, commandEchoed, found, buf)
                ELSE IF ~found /\ PastHeaderCeiling(buf)
                THEN Abort(Toast("MalformedResponse", <<>>, 0, 0),
                           commandEchoed, found, buf)
                ELSE Continue(csv, commandEchoed, found, CapBuffer(buf))

\* read() resolves with done: line 192
ReadDone ==
  /\ pc = "reading"
  /\ Finish(csvContent, commandComplete, commandEchoed, foundHeader, buffer)
  /\ UNCHANGED <<component, history>>

\* read() rejects: the catch of lines 336-339 (the timer is not cleared)
ReadFails ==
  /\ pc = "reading"
  /\ pc' = "done"
  /\ toasts' = Append(toasts, Toast("ReadFailed", <<>>, 0, 0))
  /\ UNCHANGED <<component, display, locals, timeout, history>>

\* the callback of lines 185-188 runs
TimerFires ==
  /\ timeout = "armed"
  /\ timeout' = "fired"
  /\ toasts' = Append(toasts, Toast("Timeout", <<>>, 0, 0))
  /\ UNCHANGED <<component, display, pc, locals, history>>

Next ==
  \/ Connect
  \/ StartRead
  \/ WriteDone
  \/ WriteFails
  \/ \E text \in Chunks : ReadChunk(text)
  \/ ReadDone
  \/ ReadFails
  \/ TimerFires

Spec == Init /\ [][Next]_vars

(***************************************************************************)
(* disconnect (lines 384-403) and the cleanup of lines 418-423.            *)
(***************************************************************************)
MaxDisconnects == 3

\* the flipperPort the cleanup closure of lines 419-423 holds: the effect
\* has no dependencies, so its disconnect is the one of the first render,
\* where flipperPort is the initial state of line 60
MountFlipperPort == "null"

\* mutant of DisconnectGuard: the guard is missing
DisconnectGuard_always(port) == TRUE

\* line 385
DisconnectGuard(port) == port # "null"

\* the first await of lines 387-395 the invocation reaches
DisconnectEntry(reader, writer) ==
  IF reader # "null" THEN "cancel"
  ELSE IF writer # "null" THEN "closeWriter"
  ELSE "closePort"

\* a call of disconnect whose closure holds flipperPort = port: lines 384-388
DisconnectCall(port) ==
  /\ dcalls < MaxDisconnects
  /\ dcalls' = dcalls + 1
  /\ IF DisconnectGuard(port)
     THEN dpc' = DisconnectEntry(readerRef, writerRef) /\ UNCHANGED dresult
     ELSE dresult' = "noop" /\ UNCHANGED dpc
  /\ UNCHANGED <<isConnected, flipperPort, readerRef, writerRef, released>>
  /\ UNCHANGED <<display, pc, locals, timeout, toasts, history>>

\* the DISCONNECT button (line 474), shown while isConnected (line 463)
\* (one disconnect invocation is followed at a time)
DisconnectClick ==
  /\ mounted
  /\ isConnected
  /\ dpc = "idle"
  /\ DisconnectCall(flipperPort)
  /\ UNCHANGED mounted

\* the component unmounts: the cleanup of lines 420-422 calls disconnect
Unmount ==
  /\ mounted
  /\ mounted' = FALSE
  /\ DisconnectCall(MountFlipperPort)

\* line 388 resolves; line 389; then lines 391-392 or 395
CancelDone ==
  /\ dpc = "cancel"
  /\ released' = released \cup {"reader"}
  /\ readerRef' = "null"
  /\ dpc' = DisconnectEntry("null", writerRef)
  /\ UNCHANGED <<isConnected, flipperPort, writerRef, mounted, dresult, dcalls>>
  /\ UNCHANGED <<display, pc, locals, timeout, toasts, history>>

\* line 392 resolves; line 393; then line 395
CloseWriterDone ==
  /\ dpc = "closeWriter"
  /\ released' = released \cup {"writer"}
  /\ writerRef' = "null"
  /\ dpc' = "closePort"
  /\ UNCHANGED <<isConnected, flipperPort, readerRef, mounted, dresult, dcalls>>
  /\ UNCHANGED <<display, pc, locals, timeout, toasts, history>>

\* line 395 resolves; lines 396-398
ClosePortDone ==
  /\ dpc = "closePort"
  /\ released' = released \cup {"port"}
  /\ flipperPort' = "null"
  /\ isConnected' = FALSE
  /\ dpc' = "idle"
  /\ dresult' = "ok"
  /\ UNCHANGED <<readerRef, writerRef, mounted, dcalls>>
  /\ UNCHANGED <<display, pc, locals, timeout, toasts, history>>

\* the awaited call of line 388, 392 or 395 rejects: the catch of lines 399-401
DisconnectStepFails ==
  /\ dpc # "idle"
  /\ dpc' = "idle"
  /\ dresult' = "caught"
  /\ UNCHANGED <<isConnected, flipperPort, readerRef, writerRef, mounted,
                 dcalls, released>>
  /\ UNCHANGED <<display, pc, locals, timeout, toasts, history>>

\* the chunks of the connection specification
ConnChunks == { COMMAND, HeaderText \o RowsText }

NextConn ==
  \/ Connect
  \/ DisconnectClick
  \/ Unmount
  \/ CancelDone
  \/ CloseWriterDone
  \/ ClosePortDone
  \/ DisconnectStepFails
  \/ StartRead
  \/ WriteDone
  \/ WriteFails
  \/ \E text \in ConnChunks : ReadChunk(text)
  \/ ReadDone
  \/ ReadFails
  \/ TimerFires

SpecConn == Init /\ [][NextConn]_vars

(***************************************************************************)
(* Repeated file reads: the READ CO2 DATA button.                          *)
(***************************************************************************)
MaxReads == 2

\* a transcript tail that arrives in one chunk
WholeFile == HeaderText \o RowsText \o PromptText

RereadChunks == { COMMAND, WholeFile, ErrorText }

\* the READ CO2 DATA button (line 481), shown while isConnected: a further
\* invocation of readFlipperFile, lines 165-174 (callers serialise file
\* reads); a timer the earlier invocation left armed stays pending
Reread ==
  /\ pc = "done"
  /\ isConnected
  /\ writerRef # "null" /\ readerRef # "null"
  /\ readNo + 1 < MaxReads
  /\ readNo' = readNo + 1
  /\ pc' = "writing"
  /\ received' = <<>>
  /\ errBeforeHeader' = FALSE
  /\ lateChunk' = FALSE
  /\ toasts' = <<>>
  /\ pendingTimers' = pendingTimers + (IF timeout = "armed" THEN 1 ELSE 0)
  /\ timeout' = "none"
  /\ UNCHANGED <<component, display, locals>>

\* the callback of lines 185-188 of an earlier invocation runs
StaleTimerFires ==
  /\ pendingTimers > 0
  /\ pendingTimers' = pendingTimers - 1
  /\ toasts' = Append(toasts, Toast("Timeout", <<>>, 0, 0))
  /\ UNCHANGED <<component, display, pc, locals, timeout, received,
                 errBeforeHeader, lateChunk, readNo>>

\* line 406
CanGoPrevious(index) == index > 0

\* mutant of CanGoNext: the last index is not excluded
CanGoNext_loose(index, count) == index < count

\* line 412
CanGoNext(index, count) == index < count - 1

\* the navigation buttons are rendered (line 496)
NavigationShown ==
  /\ Len(sessions) > 0
  /\ currentSessionIndex \in 0..(Len(sessions) - 1)

\* lines 405-409, from the button of line 505
previousSession ==
  /\ NavigationShown
  /\ currentSessionIndex' = (IF CanGoPrevious(currentSessionIndex)
                             THEN currentSessionIndex - 1
                             ELSE currentSessionIndex)
  /\ UNCHANGED <<component, sessions, sessionsRead, pc, locals, timeout,
                 toasts, history>>

\* lines 411-415, from the button of line 514
nextSession ==
  /\ NavigationShown
  /\ currentSessionIndex' = (IF CanGoNext(currentSessionIndex, Len(sessions))
                             THEN currentSessionIndex + 1
                             ELSE currentSessionIndex)
  /\ UNCHANGED <<component, sessions, sessionsRead, pc, locals, timeout,
                 toasts, history>>

NextReread ==
  \/ Connect
  \/ previousSession
  \/ nextSession
  \/ StartRead
  \/ Reread
  \/ WriteDone
  \/ WriteFails
  \/ \E text \in RereadChunks : ReadChunk(text)
  \/ ReadDone
  \/ ReadFails
  \/ TimerFires
  \/ StaleTimerFires

SpecReread == Init /\ [][NextReread]_vars

(***************************************************************************)
(* Chunks that carry more than one part of the transcript.                 *)
(***************************************************************************)
MixChunks == { COMMAND, COMMAND \o HeaderText, HeaderText, RowsText,
               PromptText, ErrorText \o PromptText, ErrorText \o HeaderText }

NextMix ==
  \/ Connect
  \/ StartRead
  \/ WriteDone
  \/ WriteFails
  \/ \E text \in MixChunks : ReadChunk(text)
  \/ ReadDone
  \/ ReadFails
  \/ TimerFires

SpecMix == Init /\ [][NextMix]_vars

(***************************************************************************)
(* Chunks long enough to pass the buffer ceiling of line 269.              *)
(***************************************************************************)
BigLen == 50001

Big == <<>> \o [i \in 1..BigLen |-> "x"]

CapChunks == { COMMAND, HeaderText, Big }

NextCap ==
  \/ Connect
  \/ StartRead
  \/ WriteDone
  \/ WriteFails
  \/ \E text \in CapChunks : ReadChunk(text)
  \/ ReadDone
  \/ ReadFails
  \/ TimerFires

SpecCap == Init /\ [][NextCap]_vars

(***************************************************************************)
(* The specification of segmentation: the read loop has ended with some    *)
(* accumulated CSV text, and the invocation runs lines 275-335 on it.      *)
(***************************************************************************)
MaxRows == 3

ROW_0 == <<"0", ",", "4", "0", "0">>
ROW_100 == <<"1", "0", "0", ",", "4", "0", "5">>
ROW_200 == <<"2", "0", "0", ",", "4", "1", "0">>
ROW_300 == <<"3", "0", "0", ",", "4", "1", "0">>
ROW_600 == <<"6", "0", "0", ",", "4", "1", "5">>
ROW_601 == <<"6", "0", "1", ",", "4", "2", "0">>
ROW_610 == <<"6", "1", "0", ",", "4", "2", "0">>
ROW_700 == <<"7", "0", "0", ",", "4", "2", "5">>
ROW_1000 == <<"1", "0", "0", "0", ",", "4", "3", "0">>
ROW_NONNUM == <<"a", "b", "c", ",", "d", "e", "f">>
ROW_THREE == <<"1", ",", "2", ",", "3">>
ROW_ONE == <<"g", "a", "r", "b", "a", "g", "e">>
ROW_BLANK == <<>>
ROW_PROMPT == <<">", ":", " ">>

\* the lines a payload is drawn from
RowMenu ==
  { ROW_0, ROW_300, ROW_601, ROW_1000, ROW_NONNUM, ROW_THREE, ROW_ONE,
    ROW_BLANK, ROW_PROMPT, HEADER }

\* the accumulated CSV text that starts with the header and carries the rows
CsvOf(rows) == Join(<<HEADER>> \o rows, "\n")

Example5 == <<ROW_0, ROW_100, ROW_200, ROW_600, ROW_700>>
Example610 == <<ROW_0, ROW_610>>

SegInputs ==
  { CsvOf(rows) : rows \in UNION { [1..n -> RowMenu] : n \in 0..MaxRows } }
    \cup { CsvOf(Example5), CsvOf(Example610) }

InitSeg ==
  /\ isConnected = TRUE
  /\ flipperPort = "port"
  /\ readerRef = "reader"
  /\ writerRef = "writer"
  /\ sessions = <<>>
  /\ currentSessionIndex = 0
  /\ pc = "postloop"
  /\ buffer = <<>>
  /\ csvContent \in SegInputs
  /\ foundHeader = TRUE
  /\ commandComplete = TRUE
  /\ commandEchoed = TRUE
  /\ timeout = "armed"
  /\ cleanLines = <<>>
  /\ toasts = <<>>
  /\ received = <<>>
  /\ errBeforeHeader = FALSE
  /\ lateChunk = FALSE
  /\ mounted = TRUE
  /\ dpc = "idle"
  /\ dresult = "none"
  /\ dcalls = 0
  /\ released = {}
  /\ readNo = 0
  /\ sessionsRead = 0
  /\ pendingTimers = 0

\* lines 275-335 on the accumulated text
SegFinish ==
  /\ pc = "postloop"
  /\ Finish(csvContent, commandComplete, commandEchoed, foundHeader, buffer)
  /\ UNCHANGED <<component, history>>

NextSeg == SegFinish

SpecSeg == InitSeg /\ [][NextSeg]_vars

(***************************************************************************)
(* Vocabulary of the properties.                                           *)
(***************************************************************************)
Kinds == { toasts[i].kind : i \in 1..Len(toasts) }
LastToast == toasts[Len(toasts)]

RECURSIVE FlattenData(_)
FlattenData(ss) ==
  IF ss = <<>> THEN <<>> ELSE Head(ss).data \o FlattenData(Tail(ss))

\* the samples of all sessions, in output order
AllSamples == FlattenData(sessions)

\* the positions k of AllSamples after which a session ends and another begins
SessionBoundaries ==
  { TotalPoints(SubSeq(sessions, 1, m)) : m \in 1..(Len(sessions) - 1) }

Ts(p) == ParseInt(p.timestamp)
BothNumeric(p, q) == ~Ts(p).nan /\ ~Ts(q).nan

\* the integer timestamps of the sessions, session by session
SessionStamps ==
  [i \in 1..Len(sessions) |->
     [j \in 1..Len(sessions[i].data) |-> Ts(sessions[i].data[j]).val]]

\* the lines of the accumulated text after its first (header) line
PayloadLines == Tail(Split(csvContent, "\n"))

\* a line at which a payload ends: blank, or carrying a prompt character
IsTerminator(l) == Trim(l) = <<>> \/ Includes(Trim(l), <<">">>)

\* the row-acceptance test: two integer fields, no ">" and no "storage"
IsValidRow(l) ==
  LET t == Trim(l)
      parts == Split(t, ",")
  IN /\ Len(parts) = 2
     /\ ~ParseInt(parts[1]).nan
     /\ ~ParseInt(parts[2]).nan
     /\ ~Includes(t, <<">">>)
     /\ ~Includes(t, STORAGE)

FirstIndex(P(_), ls) ==
  IF \E i \in 1..Len(ls) : P(ls[i])
  THEN CHOOSE i \in 1..Len(ls) : P(ls[i]) /\ \A j \in 1..(i - 1) : ~P(ls[j])
  ELSE Len(ls) + 1

\* the position of the first terminator among the payload lines
StopAt == FirstIndex(IsTerminator, PayloadLines)

\* the position of the first payload line that fails the acceptance test
FirstFailing == FirstIndex(LAMBDA l : ~IsValidRow(l), PayloadLines)

RowPair(l) ==
  LET parts == Split(Trim(l), ",") IN <<parts[1], ParseInt(parts[2])>>

SamplePair(p) == <<p.timestamp, p.co2_ppm>>

MapSeq(F(_), ls) == [i \in 1..Len(ls) |-> F(ls[i])]

\* the valid rows that precede the first terminator, in file order
ValidBeforeStop ==
  MapSeq(RowPair, SelectSeq(SubSeq(PayloadLines, 1, StopAt - 1), IsValidRow))

\* the samples whose timestamp is an integer
NumericSamples ==
  MapSeq(SamplePair, SelectSeq(AllSamples, LAMBDA p : ~Ts(p).nan))

\* the valid rows before the first terminator carry non-decreasing timestamps
InputSorted ==
  \A k \in 1..(Len(ValidBeforeStop) - 1) :
    ParseInt(ValidBeforeStop[k][1]).val <= ParseInt(ValidBeforeStop[k + 1][1]).val

TimeKey(t) == t.day * 86400 + t.sec
TimesValid(i) == ~sessions[i].startTime.invalid /\ ~sessions[i].endTime.invalid

(***************************************************************************)
(* Properties of readFlipperFile, checked under Spec.                      *)
(***************************************************************************)

\* C1: an invocation with an active channel reports exactly one outcome:
\* never two notifications, and one once it has terminated.
C1_ExactlyOneOutcome ==
  /\ Len(toasts) <= 1
  /\ pc = "done" => Len(toasts) = 1

\* C2: once the deadline has fired the operation has terminated and has
\* processed no chunk that arrived after the deadline.
C2_TimeoutAborts ==
  timeout = "fired" => (pc = "done" /\ ~lateChunk)

\* C3: a transcript with an error marker before any header was detected
\* never yields Success, and an outcome decided by a chunk is DeviceError.
C3_ErrorBeforeHeaderIsDeviceError ==
  errBeforeHeader =>
    /\ "Success" \notin Kinds
    /\ commandComplete => "DeviceError" \in Kinds

\* C4 (as stated): whenever the accumulated buffer exceeds 1000 characters
\* and no header has been found, the operation has aborted with
\* MalformedResponse.
C4_CeilingAlwaysAborts ==
  (~foundHeader /\ Len(buffer) > 1000) =>
    (pc = "done" /\ LastToast.kind = "MalformedResponse")

\* C4 (amended): once the echo has been seen, a buffer that exceeds 1000
\* characters with no header found and no error marker in it means the
\* operation has aborted with MalformedResponse and reads no further.
C4_CeilingAbortsAfterEcho ==
  (commandEchoed /\ ~foundHeader /\ Len(buffer) > 1000 /\ ~HasErrorMarker(buffer)) =>
    (pc = "done" /\ LastToast.kind = "MalformedResponse")

C4_Witness ==
  /\ pc = "done"
  /\ commandEchoed /\ ~foundHeader
  /\ Len(buffer) > 1000
  /\ toasts = <<Toast("MalformedResponse", <<>>, 0, 0)>>

(***************************************************************************)
(* Properties of segmentation, checked under SpecSeg.                      *)
(***************************************************************************)

\* C5: two consecutive samples are in different sessions exactly when the
\* later timestamp minus the earlier one is greater than 300; the three
\* examples of the specification come out as stated.
C5_GapRule ==
  pc = "done" =>
    /\ \A k \in 1..(Len(AllSamples) - 1) :
         (k \in SessionBoundaries) <=>
           (/\ BothNumeric(AllSamples[k], AllSamples[k + 1])
            /\ Ts(AllSamples[k + 1]).val - Ts(AllSamples[k]).val > 300)
    /\ csvContent = CsvOf(<<ROW_0, ROW_300>>) =>
         SessionStamps = << <<0, 300>> >>
    /\ csvContent = CsvOf(Example5) =>
         /\ SessionStamps = << <<0, 100, 200>>, <<600, 700>> >>
         /\ sessions[1].id = 0 /\ sessions[2].id = 1
    /\ csvContent = CsvOf(Example610) =>
         /\ SessionStamps = << <<0>>, <<610>> >>
         /\ \A i \in 1..2 : sessions[i].startTime = sessions[i].endTime

C5_Witness ==
  /\ pc = "done"
  /\ csvContent = CsvOf(Example5)
  /\ Len(sessions) = 2

\* C6: the samples of the sessions, concatenated, are the rows handed to
\* segmentation, in order; session ids count from 0; no session is empty;
\* rows without a gap greater than 300 form a single session.
C6_NoRowLost ==
  (pc = "done" /\ Len(cleanLines) > 1) =>
    LET rows == Tail(cleanLines)
    IN /\ MapSeq(SamplePair, AllSamples) = MapSeq(RowPair, rows)
       /\ \A i \in 1..Len(sessions) :
            sessions[i].id = i - 1 /\ Len(sessions[i].data) > 0
       /\ (\A k \in 1..(Len(rows) - 1) :
             LET a == ParseInt(RowPair(rows[k])[1])
                 b == ParseInt(RowPair(rows[k + 1])[1])
             IN a.nan \/ b.nan \/ b.val - a.val <= 300)
          => (Len(sessions) = 1 /\ Len(sessions[1].data) = Len(rows))

C6_Witness ==
  /\ pc = "done"
  /\ csvContent = CsvOf(<<ROW_0, ROW_300, ROW_1000>>)
  /\ Len(sessions) = 2
  /\ Len(sessions[2].data) = 1

\* C7: every valid row that precedes the first terminator (a blank line or
\* a line with ">") becomes a sample, in file order, whatever malformed
\* rows stand before or after it.
C7_MalformedRowsSkipped ==
  pc = "done" =>
    /\ Len(ValidBeforeStop) <= Len(NumericSamples)
    /\ \A k \in 1..Len(ValidBeforeStop) : NumericSamples[k] = ValidBeforeStop[k]

C7_Witness ==
  /\ pc = "done"
  /\ csvContent = CsvOf(<<ROW_0, ROW_NONNUM, ROW_300>>)
  /\ Len(AllSamples) = 2

\* C8 (as stated): no line after the first line that fails the acceptance
\* test contributes a sample.
C8_StopsAtFirstFailingLine ==
  pc = "done" => Len(NumericSamples) <= FirstFailing - 1

\* C8 (amended): scanning stops at the first blank line or line with ">":
\* the samples are exactly the lines before it that were pushed to
\* cleanLines (valid rows and repeated header lines); no later line
\* contributes a sample.
C8_StopsAtTerminator ==
  pc = "done" =>
    Len(AllSamples) =
      Cardinality({ i \in 1..(StopAt - 1) :
                      \/ IsValidRow(PayloadLines[i])
                      \/ Trim(PayloadLines[i]) = HEADER })

C8_Witness ==
  /\ pc = "done"
  /\ csvContent = CsvOf(<<ROW_0, ROW_PROMPT, ROW_300>>)
  /\ Len(AllSamples) = 1

\* C9 (as stated): in every session consecutive samples are in
\* non-decreasing timestamp order and differ by at most 300.
C9_SessionsSorted ==
  pc = "done" =>
    \A i \in 1..Len(sessions) : \A j \in 1..(Len(sessions[i].data) - 1) :
      LET p == sessions[i].data[j]
          q == sessions[i].data[j + 1]
      IN BothNumeric(p, q) =>
           (Ts(p).val <= Ts(q).val /\ Ts(q).val - Ts(p).val <= 300)

\* C9 (amended): in every session the later of two consecutive samples is
\* at most 300 after the earlier one; the samples are in non-decreasing
\* order when the input rows are.
C9_GapBounded ==
  pc = "done" =>
    \A i \in 1..Len(sessions) : \A j \in 1..(Len(sessions[i].data) - 1) :
      LET p == sessions[i].data[j]
          q == sessions[i].data[j + 1]
      IN BothNumeric(p, q) =>
           /\ Ts(q).val - Ts(p).val <= 300
           /\ InputSorted => Ts(p).val <= Ts(q).val

C9_Witness ==
  /\ pc = "done"
  /\ csvContent = CsvOf(<<ROW_601, ROW_0>>)
  /\ Len(sessions) = 1
  /\ SessionStamps = << <<601, 0>> >>

\* C10 (as stated): sessions are ordered by start time and their ranges do
\* not overlap.
C10_SessionsOrdered ==
  pc = "done" =>
    \A i \in 1..Len(sessions) : \A j \in (i + 1)..Len(sessions) :
      (TimesValid(i) /\ TimesValid(j)) =>
        /\ TimeKey(sessions[i].startTime) <= TimeKey(sessions[j].startTime)
        /\ TimeKey(sessions[i].endTime) < TimeKey(sessions[j].startTime)

\* C10 (amended): every session starts more than 300 after the end of the
\* session before it; when the input rows are in non-decreasing order the
\* sessions are ordered by start time and their ranges do not overlap.
C10_SessionsSeparated ==
  pc = "done" =>
    /\ \A i \in 1..(Len(sessions) - 1) :
         (TimesValid(i) /\ TimesValid(i + 1)) =>
           TimeKey(sessions[i + 1].startTime) - TimeKey(sessions[i].endTime) > 300
    /\ InputSorted =>
         \A i \in 1..Len(sessions) : \A j \in (i + 1)..Len(sessions) :
           (TimesValid(i) /\ TimesValid(j)) =>
             /\ TimeKey(sessions[i].startTime) <= TimeKey(sessions[i].endTime)
             /\ TimeKey(sessions[i].startTime) <= TimeKey(sessions[j].startTime)
             /\ TimeKey(sessions[i].endTime) < TimeKey(sessions[j].startTime)

C10_Witness ==
  /\ pc = "done"
  /\ csvContent = CsvOf(<<ROW_1000, ROW_0, ROW_601>>)
  /\ Len(sessions) = 2
  /\ SessionStamps = << <<1000, 0>>, <<601>> >>

(***************************************************************************)
(* Properties of disconnect and teardown, checked under SpecConn.          *)
(***************************************************************************)

\* C11: a disconnect call made while no port is held returns without
\* raising and changes nothing; this includes a second call after a
\* completed disconnect.
C11_DisconnectNoPortIsNoop ==
  [][(dcalls' # dcalls /\ flipperPort = "null") =>
       /\ dresult' = "noop"
       /\ UNCHANGED <<isConnected, flipperPort, readerRef, writerRef,
                      released, dpc, sessions, currentSessionIndex, pc,
                      toasts>>]_vars

C11_Witness ==
  /\ dcalls = 2
  /\ dresult = "noop"
  /\ dpc = "idle"
  /\ flipperPort = "null"
  /\ released = {"reader", "writer", "port"}

\* C12: once a disconnect that ran on a connected device has returned, the
\* reader, the writer and the port are cleared and the state is
\* disconnected, whether or not a release step raised.
C12_DisconnectReleasesAll ==
  (dpc = "idle" /\ dresult \in {"ok", "caught"}) =>
    /\ readerRef = "null"
    /\ writerRef = "null"
    /\ flipperPort = "null"
    /\ ~isConnected

\* C13: after teardown, once no release step has raised, the channel that
\* was connected at teardown time has been released.
C13_TeardownReleases ==
  (~mounted /\ dpc = "idle" /\ dresult # "caught") =>
    /\ flipperPort = "null"
    /\ readerRef = "null"
    /\ writerRef = "null"

(***************************************************************************)
(* Properties of repeated reads, checked under SpecReread.                 *)
(***************************************************************************)
ReadOutcomes == {"Success", "NoValidData", "EmptyCsv", "NoDataFound",
                 "DeviceError", "MalformedResponse"}

\* C14: once a later file read has completed with an outcome, whatever the
\* outcome, the displayed session list holds no session of an earlier read:
\* it is empty or was built by this read.
C14_NoSessionFromEarlierRead ==
  (pc = "done" /\ readNo > 0 /\ Kinds \cap ReadOutcomes # {}) =>
    (sessions = <<>> \/ sessionsRead = readNo)

(***************************************************************************)
(* Properties of the read loop under mixed chunks, checked under SpecMix.  *)
(***************************************************************************)
Markers == { ERR_FILE_NOT_FOUND, ERR_ERROR, ERR_INVALID, ERR_NO_SUCH_FILE,
             ERR_CANNOT_OPEN, ERR_PERMISSION }

CarriesMarker(s) == \E m \in Markers : Includes(s, m)

FirstMarkerLine(s) ==
  LET ls == Split(s, "\n") IN ls[FirstIndex(CarriesMarker, ls)]

\* C15: once the echo has been seen, a chunk that leaves an error marker
\* in the raw buffer ends the read with DeviceError carrying the first
\* buffer line that holds a marker, and leaves the session list and the
\* current index unchanged, whatever else the chunk completes.
C15_ErrorCheckFirst ==
  [][(/\ pc = "reading"
      /\ commandEchoed
      /\ Len(received') = Len(received) + 1
      /\ CarriesMarker(buffer \o received'[Len(received')])) =>
       /\ pc' = "done"
       /\ Len(toasts') = Len(toasts) + 1
       /\ toasts'[Len(toasts')] =
            Toast("DeviceError",
                  FirstMarkerLine(buffer \o received'[Len(received')]), 0, 0)
       /\ UNCHANGED <<sessions, currentSessionIndex>>]_vars

\* the error arrives with the prompt after the header was found
C15_Witness ==
  /\ pc = "done"
  /\ foundHeader
  /\ Len(received) > 0
  /\ received[Len(received)] = ErrorText \o PromptText
  /\ Kinds = {"DeviceError"}

RECURSIVE Concat(_)
Concat(cs) == IF cs = <<>> THEN <<>> ELSE Head(cs) \o Concat(Tail(cs))

\* the transcript of a file with the rows 0,400 and 610,420; delivered one
\* part per chunk it yields Success with the sessions <<0>> and <<610>>
ReferenceTranscript == COMMAND \o HeaderText \o RowsText \o PromptText

\* C16: every chunking of the reference transcript that ends with an
\* outcome ends with the outcome and the samples of the chunking that
\* delivers echo, header, rows and prompt one per chunk.
C16_ChunkingIndependent ==
  (/\ pc = "done"
   /\ Concat(received) = ReferenceTranscript
   /\ Kinds \cap ReadOutcomes # {}) =>
    /\ "Success" \in Kinds
    /\ SessionStamps = << <<0>>, <<610>> >>

\* the reference chunking ends as the comment of ReferenceTranscript says
C16_Reference ==
  (pc = "done" /\ received = <<COMMAND, HeaderText, RowsText, PromptText>>
   /\ Kinds \cap ReadOutcomes # {}) =>
    /\ "Success" \in Kinds
    /\ SessionStamps = << <<0>>, <<610>> >>

(***************************************************************************)
(* Properties of the end of the read, checked under Spec and SpecSeg.      *)
(***************************************************************************)

\* no sample carries the first field of the header as its timestamp
NoHeaderSample ==
  \A i \in 1..Len(AllSamples) :
    AllSamples[i].timestamp # Split(HEADER, ",")[1]

\* C17: Success is reported only when the prompt was seen after the
\* header (commandComplete); a stream that ends before the prompt does
\* not yield Success.
C17_SuccessOnlyWhenComplete ==
  ("Success" \in Kinds /\ NoHeaderSample) => commandComplete

\* C18: no sample is made of the header line, however often the header
\* text occurs in the payload.
C18_HeaderNeverData ==
  pc = "done" => NoHeaderSample

(***************************************************************************)
(* Properties of the buffer and of the phase flags.                        *)
(***************************************************************************)

\* C19: whenever the loop waits for a chunk the buffer holds at most
\* 100000 characters; a chunk after which the loop goes on with more than
\* 100000 characters accumulated leaves exactly the last 50000 of them in
\* the buffer, and the CSV accumulator still receives the whole chunk.
C19_BufferBounded ==
  /\ [](pc = "reading" => Len(buffer) <= 100000)
  /\ [][(/\ pc = "reading" /\ pc' = "reading"
         /\ Len(received') = Len(received) + 1
         /\ commandEchoed' = commandEchoed
         /\ Len(buffer) + Len(received'[Len(received')]) > 100000) =>
          LET text == received'[Len(received')]
              all == buffer \o text
          IN /\ buffer' = SubSeq(all, Len(all) - 49999, Len(all))
             /\ foundHeader =>
                  csvContent' = csvContent \o StripCR(StripAnsi(text))
             /\ ~commandEchoed => csvContent' = csvContent]_vars

\* the eviction happens while CSV data is collected
C19_Witness ==
  /\ pc = "reading"
  /\ foundHeader
  /\ Len(buffer) = 50000
  /\ Len(csvContent) > 100000

\* C20: foundHeader implies commandEchoed and commandComplete implies
\* foundHeader; within an invocation no flag goes back to false; and
\* while the echo has not been seen no header is found, no error or
\* ceiling abort is reported and the CSV accumulator stays empty.
C20_PhaseForward ==
  /\ [](/\ foundHeader => commandEchoed
        /\ commandComplete => foundHeader
        /\ (pc = "reading" /\ ~commandEchoed) =>
             /\ csvContent = <<>>
             /\ Kinds \cap {"DeviceError", "MalformedResponse"} = {})
  /\ [][pc = "reading" =>
          /\ commandEchoed => commandEchoed'
          /\ foundHeader => foundHeader'
          /\ commandComplete => commandComplete'
          /\ ~commandEchoed' =>
               (csvContent' = <<>> /\ toasts' \in {toasts,
                  Append(toasts, Toast("Timeout", <<>>, 0, 0)),
                  Append(toasts, Toast("ReadFailed", <<>>, 0, 0)),
                  Append(toasts, Toast("NoDataFound", <<>>, 0, 0))})]_vars

\* header, error text and prompt have arrived, the echo has not
C20_Witness ==
  /\ pc = "reading"
  /\ ~commandEchoed
  /\ \E i, j, k \in 1..Len(received) :
       /\ received[i] = HeaderText
       /\ received[j] = ErrorText
       /\ received[k] = PromptText

(***************************************************************************)
(* Properties of navigation, checked under SpecReread.                     *)
(***************************************************************************)

\* C21: the current index is never negative and is below the number of
\* sessions whenever there are sessions; a read that reports Success
\* leaves the index at 0; and a change of the index that does not come
\* with a read result moves it by one inside the list, so previousSession
\* at 0 and nextSession at the last index change nothing.
C21_IndexInBounds ==
  /\ [](/\ currentSessionIndex >= 0
        /\ sessions # <<>> => currentSessionIndex < Len(sessions))
  /\ [][/\ (Len(toasts') = Len(toasts) + 1
            /\ toasts'[Len(toasts')].kind = "Success") =>
             currentSessionIndex' = 0
        /\ (toasts' = toasts /\ currentSessionIndex' # currentSessionIndex) =>
             /\ sessions' = sessions
             /\ currentSessionIndex' \in 0..(Len(sessions) - 1)
             /\ currentSessionIndex' \in {currentSessionIndex - 1,
                                          currentSessionIndex + 1}]_vars

\* nextSession has moved to the last session of the list that the second
\* read built
C21_Witness ==
  /\ readNo = 1
  /\ sessionsRead = 1
  /\ Len(sessions) = 2
  /\ currentSessionIndex = 1

(***************************************************************************)
(* Properties of a read without a channel, checked under SpecConn.         *)
(***************************************************************************)

\* C22: a file read that starts while the reader or the writer is cleared
\* returns at once: no command is written and no timer armed, then and
\* afterwards, no notification is emitted and sessions and index are
\* unchanged.
C22_ReadWithoutChannelReturns ==
  /\ [][(pc = "idle" /\ pc' # "idle"
         /\ (readerRef = "null" \/ writerRef = "null")) =>
          /\ pc' = "returned"
          /\ UNCHANGED <<timeout, toasts, sessions, currentSessionIndex,
                         buffer, csvContent>>]_vars
  /\ [](pc = "returned" =>
          /\ timeout = "none"
          /\ toasts = <<>>
          /\ sessions = <<>>
          /\ currentSessionIndex = 0)

\* disconnect has cancelled the reader before the scheduled read ran
C22_Witness ==
  /\ pc = "returned"
  /\ "reader" \in released

====
